---- MODULE Spec2Model ----
(***************************************************************************)
(* Dependency pinning metric: getDependencyPinningFraction and its         *)
(* helpers (get_axios_params, isVersionPinned, calculatePinningScore,      *)
(* _getDependencyPinningFractionFromPackageJson).                          *)
(*                                                                         *)
(* Strings whose characters matter (version specifiers) are tuples of      *)
(* one-character strings.  A JavaScript number is a reduced fraction       *)
(* [num, den]; den = 0 stands for the non-finite results of a division by  *)
(* zero (NaN for 0/0, Infinity for k/0).                                   *)
(***************************************************************************)
EXTENDS Integers, Sequences, FiniteSets, TLC

VARIABLES
    pc,              \* per invocation: "idle", "awaiting" (suspended at the await), "done"
    args,            \* per invocation: the url and token it is called with
    params,          \* per invocation: the destructured { owner, repo, headers }
    request,         \* per invocation: the GET handed to axios
    gets,            \* per invocation: number of axios.get calls made
    response,        \* per invocation: what the awaited GET settled with
    outcome,         \* per invocation: how the returned promise settled
    calcRuns,        \* per invocation: number of calculatePinningScore calls
    packageJson,     \* per invocation: the local packageJson (line 86)
    allDependencies, \* per invocation: the local allDependencies (line 89)
    log,             \* the logger's records in emission order (shared by all)
    version,         \* classifier run: the version string given
    pinned,          \* classifier run: isVersionPinned's answer
    phase            \* classifier run: "input" or "classified"

vars == <<pc, args, params, request, gets, response, outcome, calcRuns,
          packageJson, allDependencies, log, version, pinned, phase>>

invVars == <<pc, args, params, request, gets, response, outcome, calcRuns,
             packageJson, allDependencies, log>>
classVars == <<version, pinned, phase>>

(***************************************************************************)
(* Bounds                                                                  *)
(***************************************************************************)
MaxVerLen == 5
MaxEntries == 3
MaxInv == 2

(***************************************************************************)
(* isVersionPinned: trim, then the regular expression                      *)
(*     /^(\^|~)?\d+\.\d+(\.\d+|\.\*|\.x)?$/                                *)
(***************************************************************************)
Digits == {"0", "1", "2", "3", "4", "5", "6", "7", "8", "9"}
WhiteSpace == {" ", "\t", "\n"}

RECURSIVE TrimStart(_)
TrimStart(s) ==
    IF s # <<>> /\ Head(s) \in WhiteSpace THEN TrimStart(Tail(s)) ELSE s

RECURSIVE TrimEnd(_)
TrimEnd(s) ==
    IF s # <<>> /\ s[Len(s)] \in WhiteSpace
    THEN TrimEnd(SubSeq(s, 1, Len(s) - 1))
    ELSE s

Trim(s) == TrimEnd(TrimStart(s))

\* The automaton of the pattern.  States: 0 start, 1 after the optional
\* ^ or ~, 2 in the major digits, 3 after the first dot, 4 in the minor
\* digits, 5 after the second dot, 6 in the patch digits, 7 after * or x.
RegexStart == {0, 1}
RegexAccept == {4, 6, 7}

RegexDelta(q, c) ==
    CASE q = 0 /\ c \in {"^", "~"} -> {1}
      [] q = 1 /\ c \in Digits -> {2}
      [] q = 2 /\ c \in Digits -> {2}
      [] q = 2 /\ c = "." -> {3}
      [] q = 3 /\ c \in Digits -> {4}
      [] q = 4 /\ c \in Digits -> {4}
      [] q = 4 /\ c = "." -> {5}
      [] q = 5 /\ c \in Digits -> {6}
      [] q = 5 /\ c \in {"*", "x"} -> {7}
      [] q = 6 /\ c \in Digits -> {6}
      [] OTHER -> {}

RECURSIVE RegexRun(_, _)
RegexRun(qs, s) ==
    IF s = <<>> THEN qs
    ELSE RegexRun(UNION {RegexDelta(q, Head(s)) : q \in qs}, Tail(s))

PinnedVersionRegexTest(s) == RegexRun(RegexStart, s) \cap RegexAccept # {}

\* Mutant: the version is matched as given, without trim().
isVersionPinnedNoTrim(v) == PinnedVersionRegexTest(v)

isVersionPinned(v) == PinnedVersionRegexTest(Trim(v))

(***************************************************************************)
(* Classifier run: one call of isVersionPinned on a bounded string         *)
(***************************************************************************)
Alphabet == {"^", "~", "1", ".", "*", "x", " "}

Str(n) == UNION {[1..k -> Alphabet] : k \in 0..n}

ExampleVersions ==
    { <<"2", ".", "3">>,
      <<"^", "2", ".", "3", ".", "4">>,
      <<"~", "2", ".", "3", ".", "x">>,
      <<"2", ".", "3", ".", "*">>,
      <<"^", "4", ".", "1", "7", ".", "2", "1">>,
      <<" ", "1", ".", "2", ".", "3", "\n">>,
      <<"*">>,
      <<"l", "a", "t", "e", "s", "t">>,
      <<">", "=", "1", ".", "0", ".", "0">>,
      <<"1">>,
      <<"1", ".", "2", ".", "3", "-", "b", "e", "t", "a">>,
      <<"1", ".", "2", "\n", "3">>,
      <<">", "=", "1", ".", "2", " ", "<", "2", ".", "0">> }



(***************************************************************************)
(* JavaScript values and completions                                       *)
(***************************************************************************)
RECURSIVE GCD(_, _)
GCD(a, b) == IF b = 0 THEN a ELSE GCD(b, a % b)

Num(n, d) == [t |-> "number", num |-> n, den |-> d]
Null == [t |-> "null", num |-> 0, den |-> 1]
Undefined == [t |-> "undefined", num |-> 0, den |-> 1]
One == Num(1, 1)
NaN == Num(0, 0)
Infinity == Num(1, 0)

\* k / n on non-negative integers, as the double it yields: equal quotients
\* are the same double, and a zero divisor gives NaN or Infinity.
Div(k, n) ==
    IF n = 0 THEN (IF k = 0 THEN NaN ELSE Infinity)
    ELSE Num(k \div GCD(k, n), n \div GCD(k, n))

Return(v) == [kind |-> "return", value |-> v, message |-> ""]
Throw(m) == [kind |-> "throw", value |-> Undefined, message |-> m]
Pending == [kind |-> "pending", value |-> Undefined, message |-> ""]

\* A version as JSON delivers it: a string, or (in an ill-typed manifest) a number.
StrV(s) == [t |-> "string", s |-> s]
NumV(s) == [t |-> "number", s |-> s]

(***************************************************************************)
(* calculatePinningScore                                                   *)
(***************************************************************************)
\* dependencyNames.forEach: version.trim() raises a TypeError on a value
\* that is no string, which ends the loop and the function.
RECURSIVE ForEachDependency(_, _, _)
ForEachDependency(dependencies, names, pinnedCount) ==
    IF names = {} THEN [threw |-> FALSE, pinnedCount |-> pinnedCount]
    ELSE LET dep == CHOOSE d \in names : TRUE
             v == dependencies[dep]
         IN  IF v.t # "string"
             THEN [threw |-> TRUE, pinnedCount |-> pinnedCount]
             ELSE ForEachDependency(dependencies, names \ {dep},
                      IF isVersionPinned(v.s) THEN pinnedCount + 1 ELSE pinnedCount)

\* Mutant: the total === 0 case is not singled out.
EmptyCheckNever(total) == FALSE

EmptyCheck(total) == total = 0

\* Mutant: the quotient is truncated to an integer.
calculatePinningScoreFloor(dependencies) ==
    LET total == Cardinality(DOMAIN dependencies)
        loop == ForEachDependency(dependencies, DOMAIN dependencies, 0)
    IN  IF total = 0 THEN Return(One)
        ELSE IF loop.threw THEN Throw("version.trim is not a function")
        ELSE Return(Num(loop.pinnedCount \div total, 1))

\* Mutant: the operands of the division are swapped.
calculatePinningScoreSwapped(dependencies) ==
    LET total == Cardinality(DOMAIN dependencies)
        loop == ForEachDependency(dependencies, DOMAIN dependencies, 0)
    IN  IF total = 0 THEN Return(One)
        ELSE IF loop.threw THEN Throw("version.trim is not a function")
        ELSE Return(Div(total, loop.pinnedCount))

calculatePinningScore(dependencies) ==
    LET dependencyNames == DOMAIN dependencies
        total == Cardinality(dependencyNames)
    IN  IF EmptyCheck(total) THEN Return(One)
        ELSE LET loop == ForEachDependency(dependencies, dependencyNames, 0)
             IN  IF loop.threw THEN Throw("version.trim is not a function")
                 ELSE Return(Div(loop.pinnedCount, total))

(***************************************************************************)
(* The merge of the four dependency categories (object spread)             *)
(***************************************************************************)
Categories ==
    <<"dependencies", "devDependencies", "peerDependencies", "optionalDependencies">>
CategorySet == {Categories[i] : i \in 1..Len(Categories)}

EmptyMap == <<>>
Absent == [present |-> FALSE, map |-> EmptyMap]
Declared(m) == [present |-> TRUE, map |-> m]
NoManifest == [c \in CategorySet |-> Absent]

\* Mutant: a key already present keeps its earlier value.
SpreadIntoKeepFirst(target, source) ==
    IF ~source.present THEN target
    ELSE [k \in DOMAIN target \cup DOMAIN source.map |->
             IF k \in DOMAIN target THEN target[k] ELSE source.map[k]]

\* { ...target, ...source }: the own keys of source are set on target;
\* spreading undefined adds nothing.
SpreadInto(target, source) ==
    IF ~source.present THEN target
    ELSE [k \in DOMAIN target \cup DOMAIN source.map |->
             IF k \in DOMAIN source.map THEN source.map[k] ELSE target[k]]

RECURSIVE SpreadFrom(_, _, _)
SpreadFrom(target, json, i) ==
    IF i > Len(Categories) THEN target
    ELSE SpreadFrom(SpreadInto(target, json[Categories[i]]), json, i + 1)

SpreadAll(json) == SpreadFrom(EmptyMap, json, 1)

(***************************************************************************)
(* The collaborators: URL parser, logger, HTTP client, Buffer, JSON        *)
(***************************************************************************)
GoodUrl == "https://github.com/lodash/lodash"
BadUrl == "not-a-github-url"
Urls == {GoodUrl, BadUrl}
Tokens == {"t1", "t2"}

\* parse(url) -> {owner, repo}, failing with an opaque error for a malformed URL.
parseGitHubUrl(url) ==
    IF url = GoodUrl
    THEN [threw |-> FALSE, owner |-> "lodash", repo |-> "lodash", message |-> ""]
    ELSE [threw |-> TRUE, owner |-> "", repo |-> "", message |-> "Invalid GitHub URL"]

\* A log record as the logger receives it; the model appends them to log.
LogRecord(level, msg, detail) == [level |-> level, msg |-> msg, detail |-> detail]

\* What the awaited axios.get settles with.  A fulfilled response carries
\* data.content: "missing", the "empty" string, a truthy "nonstring", or
\* "base64" text; the base64 text is given by the text it encodes, and that
\* text by the value JSON.parse yields for it (none when it is not JSON).
TextOf(wellFormed, value) == [wellFormed |-> wellFormed, value |-> value]
JsonNull == [t |-> "null", cats |-> NoManifest]
JsonObject(cats) == [t |-> "object", cats |-> cats]
NoText == TextOf(FALSE, JsonNull)

Rejected(m) ==
    [kind |-> "rejected", message |-> m, field |-> "missing", text |-> NoText]
Fulfilled(field, text) ==
    [kind |-> "fulfilled", message |-> "", field |-> field, text |-> text]
NoResponse == [kind |-> "none", message |-> "", field |-> "missing", text |-> NoText]

\* Buffer.from(content, "base64").toString("utf-8"): Buffer.from raises a
\* TypeError on a content that is no string (a number, an object).
Base64Decode(res) ==
    IF res.field = "nonstring"
    THEN [threw |-> TRUE, text |-> NoText,
          message |-> "The first argument must be of type string"]
    ELSE [threw |-> FALSE, text |-> res.text, message |-> ""]

\* JSON.parse(packageContent)
JSONParse(text) ==
    IF text.wellFormed THEN [threw |-> FALSE, value |-> text.value, message |-> ""]
    ELSE [threw |-> TRUE, value |-> JsonNull,
          message |-> "Unexpected token in JSON at position 0"]


(***************************************************************************)
(* get_axios_params                                                        *)
(***************************************************************************)
NoHeaders == [Authorization |-> <<>>, Accept |-> ""]
NoParams == [owner |-> "", repo |-> "", headers |-> NoHeaders]
NoRequest == [url |-> <<>>, headers |-> NoHeaders]

Headers(token) ==
    [Authorization |-> <<"token", token>>, Accept |-> "application/vnd.github.v3+json"]

get_axios_params(url, token) ==
    LET parsed == parseGitHubUrl(url)
    IN  IF parsed.threw
        THEN [threw |-> TRUE, message |-> parsed.message, params |-> NoParams,
              logs |-> <<>>]
        ELSE [threw |-> FALSE, message |-> "",
              params |-> [owner |-> parsed.owner, repo |-> parsed.repo,
                          headers |-> Headers(token)],
              logs |-> <<LogRecord("debug", <<"Generated axios parameters">>,
                                   <<parsed.owner, parsed.repo>>)>>]

(***************************************************************************)
(* _getDependencyPinningFractionFromPackageJson                            *)
(***************************************************************************)
\* What a stretch of code did: its completion, the records it logged, the
\* calculatePinningScore calls it made and the locals it assigned.
Effect(c, logs, calcs, json, merged) ==
    [c |-> c, logs |-> logs, calcs |-> calcs, json |-> json, merged |-> merged]

PackageJsonUrl(owner, repo) ==
    <<"https://api.github.com/repos", owner, repo, "contents/package.json">>

\* axios.get(packageJsonUrl, { headers })
AxiosGet(owner, repo, headers) ==
    [url |-> PackageJsonUrl(owner, repo), headers |-> headers]

\* Mutant: the content is decoded without the check.
TruthyAlways(res) == TRUE

\* if (packageResponse.data.content): a missing field and "" are both falsy.
Truthy(res) == res.field \in {"base64", "nonstring"}

\* Lines 102-103.
ContentNotFound(owner, repo) ==
    Effect(Return(Null),
           <<LogRecord("error", <<"package.json content not found for", owner, repo>>,
                       <<>>)>>,
           0, NoManifest, EmptyMap)

\* Lines 82-99: decode, parse, merge, score.
Score(res) ==
    LET packageContent == Base64Decode(res)
        parsed == JSONParse(packageContent.text)
    IN  IF packageContent.threw
        THEN Effect(Throw(packageContent.message), <<>>, 0, NoManifest, EmptyMap)
        ELSE IF parsed.threw
        THEN Effect(Throw(parsed.message), <<>>, 0, NoManifest, EmptyMap)
        ELSE IF parsed.value.t = "null"
        THEN Effect(Throw("Cannot read properties of null (reading 'dependencies')"),
                    <<>>, 0, NoManifest, EmptyMap)
        ELSE LET merged == SpreadAll(parsed.value.cats)
             IN  Effect(calculatePinningScore(merged), <<>>, 1,
                        parsed.value.cats, merged)

\* The try block from the point the awaited GET settles (lines 76-103).
TryBody(owner, repo, res) ==
    IF res.kind = "rejected"
    THEN Effect(Throw(res.message), <<>>, 0, NoManifest, EmptyMap)
    ELSE IF Truthy(res) THEN Score(res)
    ELSE ContentNotFound(owner, repo)

\* Mutant: the handler logs and rethrows.
FetchCatchRethrow(owner, repo, e) ==
    Effect(Throw(e.c.message),
           e.logs \o <<LogRecord("error", <<"Failed to fetch package.json for", owner, repo>>,
                                 <<e.c.message>>)>>,
           e.calcs, e.json, e.merged)

\* The catch block (lines 104-107).
FetchCatch(owner, repo, e) ==
    Effect(Return(Null),
           e.logs \o <<LogRecord("error", <<"Failed to fetch package.json for", owner, repo>>,
                                 <<e.c.message>>)>>,
           e.calcs, e.json, e.merged)

\* The function from the point its awaited GET settles with res (the GET
\* itself is issued in Start, which runs the function up to the await).
_getDependencyPinningFractionFromPackageJson(owner, repo, res) ==
    LET e == TryBody(owner, repo, res)
    IN  IF e.c.kind = "throw" THEN FetchCatch(owner, repo, e) ELSE e

(***************************************************************************)
(* getDependencyPinningFraction                                            *)
(***************************************************************************)
\* Mutant: the handler logs and rethrows.
OuterCatchRethrow(url, logs, message) ==
    [c |-> Throw(message),
     logs |-> logs \o <<LogRecord("error", <<"Error processing", url>>, <<message>>)>>]

\* The catch block (lines 123-126).
OuterCatch(url, logs, message) ==
    [c |-> Return(Null),
     logs |-> logs \o <<LogRecord("error", <<"Error processing", url>>, <<message>>)>>]

\* Mutant: a GET that is issued is issued a second time.
StartRetrying(url, token) ==
    LET p == get_axios_params(url, token)
    IN  IF p.threw
        THEN [c |-> Return(Null),
              logs |-> p.logs \o <<LogRecord("error", <<"Error processing", url>>,
                                             <<p.message>>)>>,
              params |-> NoParams, request |-> NoRequest, gets |-> 0]
        ELSE [c |-> Pending, logs |-> p.logs, params |-> p.params,
              request |-> AxiosGet(p.params.owner, p.params.repo, p.params.headers),
              gets |-> 2]

\* From the call to the await: the parameters are built and the GET is issued.
Start(url, token) ==
    LET p == get_axios_params(url, token)
    IN  IF p.threw
        THEN LET h == OuterCatch(url, p.logs, p.message)
             IN  [c |-> h.c, logs |-> h.logs, params |-> NoParams,
                  request |-> NoRequest, gets |-> 0]
        ELSE [c |-> Pending, logs |-> p.logs, params |-> p.params,
              request |-> AxiosGet(p.params.owner, p.params.repo, p.params.headers),
              gets |-> 1]

\* Mutant: the first response any invocation received is kept in a variable
\* of the module and served to the later ones.
AwaitedShared(i, res) ==
    IF \E j \in DOMAIN response : response[j].kind # "none"
    THEN response[CHOOSE j \in DOMAIN response : response[j].kind # "none"]
    ELSE res

\* The awaited response the continuation works on.
Awaited(i, res) == res

\* From the await to the return: return await _getDependency...(owner, repo, headers).
Resume(url, ps, res) ==
    LET e == _getDependencyPinningFractionFromPackageJson(ps.owner, ps.repo, res)
    IN  IF e.c.kind = "throw"
        THEN LET h == OuterCatch(url, e.logs, e.c.message)
             IN  Effect(h.c, h.logs, e.calcs, e.json, e.merged)
        ELSE e

(***************************************************************************)
(* Invocations of getDependencyPinningFraction                             *)
(***************************************************************************)
Inv == 1..MaxInv

Tagged(i, logs) ==
    [k \in 1..Len(logs) |->
        [inv |-> i, level |-> logs[k].level, msg |-> logs[k].msg,
         detail |-> logs[k].detail]]

IdleInit(A) ==
    /\ args \in [Inv -> A]
    /\ pc = [i \in Inv |-> "idle"]
    /\ params = [i \in Inv |-> NoParams]
    /\ request = [i \in Inv |-> NoRequest]
    /\ gets = [i \in Inv |-> 0]
    /\ response = [i \in Inv |-> NoResponse]
    /\ outcome = [i \in Inv |-> Pending]
    /\ calcRuns = [i \in Inv |-> 0]
    /\ packageJson = [i \in Inv |-> NoManifest]
    /\ allDependencies = [i \in Inv |-> EmptyMap]
    /\ log = <<>>

\* The caller calls getDependencyPinningFraction(url, token): the function
\* runs to its await, or to its end when the parameters cannot be built.
Call(i) ==
    /\ pc[i] = "idle"
    /\ LET s == Start(args[i].url, args[i].token)
       IN  /\ params' = [params EXCEPT ![i] = s.params]
           /\ request' = [request EXCEPT ![i] = s.request]
           /\ gets' = [gets EXCEPT ![i] = @ + s.gets]
           /\ outcome' = [outcome EXCEPT ![i] = s.c]
           /\ log' = log \o Tagged(i, s.logs)
           /\ pc' = [pc EXCEPT ![i] = IF s.c.kind = "pending" THEN "awaiting" ELSE "done"]
    /\ UNCHANGED <<args, response, calcRuns, packageJson, allDependencies, classVars>>

\* The GET of invocation i settles with res and the function runs to its end.
Settle(i, res) ==
    /\ pc[i] = "awaiting"
    /\ LET r == Awaited(i, res)
           e == Resume(args[i].url, params[i], r)
       IN  /\ response' = [response EXCEPT ![i] = res]
           /\ outcome' = [outcome EXCEPT ![i] = e.c]
           /\ calcRuns' = [calcRuns EXCEPT ![i] = @ + e.calcs]
           /\ packageJson' = [packageJson EXCEPT ![i] = e.json]
           /\ allDependencies' = [allDependencies EXCEPT ![i] = e.merged]
           /\ log' = log \o Tagged(i, e.logs)
           /\ pc' = [pc EXCEPT ![i] = "done"]
    /\ UNCHANGED <<args, params, request, gets, classVars>>

ClassIdle ==
    /\ version = <<>>
    /\ pinned = FALSE
    /\ phase = "input"

(***************************************************************************)
(* Spec: MaxInv concurrent invocations, each GET settling in one of the    *)
(* sample ways                                                             *)
(***************************************************************************)
CaretVersion == <<"^", "4", ".", "1", "7", ".", "2", "1">>
LatestVersion == <<"l", "a", "t", "e", "s", "t">>

\* {"dependencies":{"lodash":"^4.17.21"},"devDependencies":{"jest":"latest"}}
LodashJest ==
    [NoManifest EXCEPT
        !["dependencies"] = Declared([n \in {"lodash"} |-> StrV(CaretVersion)]),
        !["devDependencies"] = Declared([n \in {"jest"} |-> StrV(LatestVersion)])]

\* {"dependencies":{"x":"1.0.0"},"devDependencies":{"x":"*"}}
SameName ==
    [NoManifest EXCEPT
        !["dependencies"] = Declared([n \in {"x"} |-> StrV(<<"1", ".", "0", ".", "0">>)]),
        !["devDependencies"] = Declared([n \in {"x"} |-> StrV(<<"*">>)])]

\* {"dependencies":{"x":1}}
IllTyped ==
    [NoManifest EXCEPT !["dependencies"] = Declared([n \in {"x"} |-> NumV(<<"1">>)])]

ManifestResponse(cats) == Fulfilled("base64", TextOf(TRUE, JsonObject(cats)))

SampleResponses ==
    { Rejected("Network Error"),
      Rejected("Request failed with status code 404"),
      Fulfilled("missing", NoText),
      Fulfilled("empty", NoText),
      Fulfilled("nonstring", NoText),
      Fulfilled("base64", NoText),
      Fulfilled("base64", TextOf(TRUE, JsonNull)),
      ManifestResponse(NoManifest),
      ManifestResponse(LodashJest),
      ManifestResponse(SameName),
      ManifestResponse(IllTyped) }

Init ==
    /\ IdleInit([url : Urls, token : Tokens])
    /\ ClassIdle

Next ==
    \/ \E i \in Inv : Call(i)
    \/ \E i \in Inv : \E res \in SampleResponses : Settle(i, res)

Spec == Init /\ [][Next]_vars

(***************************************************************************)
(* SpecScore: one invocation whose GET delivers a well-formed manifest of  *)
(* at most MaxEntries declared dependencies                                *)
(***************************************************************************)
Names == {"lodash", "jest", "x"}
Versions == {StrV(CaretVersion), StrV(LatestVersion)}
Slots == CategorySet \X Names

ManifestOf(E, f, P) ==
    [c \in CategorySet |->
        LET ns == {n \in Names : <<c, n>> \in E}
        IN  IF ns = {} /\ c \notin P THEN Absent
            ELSE Declared([n \in ns |-> f[<<c, n>>]])]

EntrySets == {S \in SUBSET Slots : Cardinality(S) <= MaxEntries}
EmptyCategories(E) == {c \in CategorySet : \A n \in Names : <<c, n>> \notin E}

ScoreInit ==
    /\ IdleInit({[url |-> GoodUrl, token |-> "t1"]})
    /\ ClassIdle

ScoreCall == Call(1)

ScoreSettle ==
    \E E \in EntrySets : \E f \in [E -> Versions] : \E P \in SUBSET EmptyCategories(E) :
        Settle(1, ManifestResponse(ManifestOf(E, f, P)))

ScoreNext == ScoreCall \/ ScoreSettle

SpecScore == ScoreInit /\ [][ScoreNext]_vars

(***************************************************************************)
(* SpecClassifier: one call of isVersionPinned on a string of at most      *)
(* MaxVerLen characters, or on one of the documented examples              *)
(***************************************************************************)
ClassifierInit ==
    /\ IdleInit({[url |-> GoodUrl, token |-> "t1"]})
    /\ version \in Str(MaxVerLen) \cup ExampleVersions
    /\ pinned = FALSE
    /\ phase = "input"

Classify ==
    /\ phase = "input"
    /\ pinned' = isVersionPinned(version)
    /\ phase' = "classified"
    /\ UNCHANGED <<version, invVars>>

ClassifierNext == Classify

SpecClassifier == ClassifierInit /\ [][ClassifierNext]_vars


(***************************************************************************)
(* Properties                                                              *)
(***************************************************************************)
Done(i) == pc[i] = "done"

\* The error records invocation i emitted, in order.
ErrorLogs(i) == SelectSeq(log, LAMBDA r : r.inv = i /\ r.level = "error")

UrlFails(i) == parseGitHubUrl(args[i].url).threw
GetFails(i) == response[i].kind = "rejected"
ContentMissing(i) == response[i].kind = "fulfilled" /\ response[i].field = "missing"
DecodeFails(i) == response[i].kind = "fulfilled" /\ response[i].field = "nonstring"
ParseFails(i) ==
    /\ response[i].kind = "fulfilled"
    /\ response[i].field = "base64"
    /\ ~response[i].text.wellFormed

\* C1: getDependencyPinningFraction never lets an exception escape: its
\* promise is pending until it settles with a number or null; however the
\* GET of a suspended invocation settles, the invocation returns; and a URL
\* that does not parse, a failed GET, a response without content and
\* content that does not decode to JSON each settle it with null.
C1_NeverRaises ==
    \A i \in Inv :
        /\ outcome[i].kind # "throw"
        /\ pc[i] = "awaiting" =>
             \A res \in SampleResponses :
                 Resume(args[i].url, params[i], res).c.kind = "return"
        /\ Done(i) =>
             /\ outcome[i].kind = "return"
             /\ outcome[i].value.t \in {"number", "null"}
             /\ (UrlFails(i) \/ GetFails(i) \/ ContentMissing(i)
                     \/ DecodeFails(i) \/ ParseFails(i))
                    => outcome[i].value = Null

C1_Witness ==
    \E i, j \in Inv :
        /\ Done(i) /\ UrlFails(i) /\ outcome[i] = Return(Null)
        /\ Done(j) /\ ParseFails(j) /\ outcome[j] = Return(Null)

\* C6: a fulfilled GET whose body has no content field ends the invocation
\* with null and exactly one error record, the one that names owner/repo as
\* having no package.json content; calculatePinningScore is not called.
C6_MissingContent ==
    \A i \in Inv :
        (Done(i) /\ ContentMissing(i)) =>
            /\ outcome[i] = Return(Null)
            /\ Len(ErrorLogs(i)) = 1
            /\ ErrorLogs(i)[1].msg =
                   <<"package.json content not found for", params[i].owner, params[i].repo>>
            /\ calcRuns[i] = 0

C6_Witness ==
    \E i \in Inv : Done(i) /\ ContentMissing(i) /\ Len(ErrorLogs(i)) = 1

\* The try block of the fetcher raised for invocation i.
TryThrew(i) ==
    /\ response[i].kind # "none"
    /\ TryBody(params[i].owner, params[i].repo, response[i]).c.kind = "throw"

\* C7: when the GET is rejected, or decoding and scoring the content raises,
\* the invocation ends with null and exactly one error record, emitted by
\* the fetcher's own handler and carrying the underlying message; the
\* handler of getDependencyPinningFraction adds none.
C7_OneErrorRecord ==
    \A i \in Inv :
        (Done(i) /\ TryThrew(i)) =>
            /\ outcome[i] = Return(Null)
            /\ Len(ErrorLogs(i)) = 1
            /\ ErrorLogs(i)[1].msg =
                   <<"Failed to fetch package.json for", params[i].owner, params[i].repo>>
            /\ GetFails(i) => ErrorLogs(i)[1].detail = <<response[i].message>>
            /\ DecodeFails(i) =>
                   ErrorLogs(i)[1].detail = <<Base64Decode(response[i]).message>>
            /\ ParseFails(i) =>
                   ErrorLogs(i)[1].detail = <<JSONParse(response[i].text).message>>

C7_Witness ==
    \E i, j \in Inv :
        /\ Done(i) /\ GetFails(i) /\ Len(ErrorLogs(i)) = 1
        /\ Done(j) /\ ParseFails(j) /\ Len(ErrorLogs(j)) = 1

\* C9: an invocation issues no GET when its URL does not parse and exactly
\* one otherwise, never a second; the GET it issues goes to the URL and
\* carries the headers of the parameters built from its own url and token.
C9_OneGet ==
    \A i \in Inv :
        /\ gets[i] <= 1
        /\ pc[i] # "idle" => gets[i] = (IF UrlFails(i) THEN 0 ELSE 1)
        /\ gets[i] = 1 =>
             /\ params[i].headers = Headers(args[i].token)
             /\ params[i].owner = parseGitHubUrl(args[i].url).owner
             /\ params[i].repo = parseGitHubUrl(args[i].url).repo
             /\ request[i].url = PackageJsonUrl(params[i].owner, params[i].repo)
             /\ request[i].headers = params[i].headers
        /\ gets[i] = 0 => request[i] = NoRequest

C9_Witness ==
    \E i, j \in Inv :
        /\ Done(i) /\ UrlFails(i) /\ gets[i] = 0
        /\ Done(j) /\ GetFails(j) /\ gets[j] = 1

\* What an invocation called with a returns when it runs alone and its GET
\* settles with res.
Alone(a, res) ==
    LET p == parseGitHubUrl(a.url)
    IN  IF p.threw THEN Return(Null)
        ELSE Resume(a.url, [owner |-> p.owner, repo |-> p.repo,
                            headers |-> Headers(a.token)], res).c

\* C10: however the invocations interleave at their await, each returns
\* what it would return alone for its url, token and response, and two
\* invocations with the same url and the same response return the same.
C10_Independent ==
    /\ \A i \in Inv : Done(i) => outcome[i] = Alone(args[i], response[i])
    /\ \A i, j \in Inv :
         (Done(i) /\ Done(j) /\ args[i].url = args[j].url /\ response[i] = response[j])
             => outcome[i] = outcome[j]

\* Invocation 2 was called while invocation 1 was suspended, 1 settled first
\* with a failure, and 2 then returned a number.
C10_Witness ==
    /\ Done(1) /\ Done(2)
    /\ outcome[1] = Return(Null) /\ outcome[2].value.t = "number"
    /\ Len(log) = 3
    /\ log[1].inv = 1 /\ log[2].inv = 2 /\ log[3].inv = 1 /\ log[3].level = "error"

\* The manifest the GET of invocation i delivered.
Delivered(i) == response[i].text.value.cats

PinnedNames(deps) == {d \in DOMAIN deps : isVersionPinned(deps[d].s)}

\* C2: over a non-empty merged map of n names of which k have a version the
\* classifier accepts, the result r is the number k/n (r.num * n = k * r.den);
\* the manifest with dependencies {lodash: ^4.17.21} and devDependencies
\* {jest: latest} merges to 2 names and gives 1/2.
C2_Fraction ==
    \A i \in Inv :
        Done(i) =>
            /\ allDependencies[i] # EmptyMap =>
                 /\ outcome[i].kind = "return"
                 /\ outcome[i].value.t = "number"
                 /\ outcome[i].value.den > 0
                 /\ outcome[i].value.num * Cardinality(DOMAIN allDependencies[i])
                        = Cardinality(PinnedNames(allDependencies[i])) * outcome[i].value.den
            /\ response[i] = ManifestResponse(LodashJest) =>
                 /\ Cardinality(DOMAIN allDependencies[i]) = 2
                 /\ outcome[i] = Return(Num(1, 2))

C2_Witness ==
    \E i \in Inv :
        /\ Done(i)
        /\ response[i] = ManifestResponse(LodashJest)
        /\ outcome[i] = Return(Num(1, 2))

NothingDeclared(cats) ==
    \A c \in CategorySet : ~cats[c].present \/ cats[c].map = EmptyMap

\* C3: a manifest that declares none of the four categories, or only empty
\* ones, merges to the empty map and the result is exactly 1.
C3_EmptyIsOne ==
    \A i \in Inv :
        (Done(i) /\ NothingDeclared(Delivered(i))) =>
            /\ allDependencies[i] = EmptyMap
            /\ calcRuns[i] = 1
            /\ outcome[i] = Return(One)

C3_Witness ==
    \E i \in Inv :
        /\ Done(i)
        /\ Delivered(i)["dependencies"] = Declared(EmptyMap)
        /\ Delivered(i)["peerDependencies"] = Absent
        /\ NothingDeclared(Delivered(i))
        /\ outcome[i] = Return(One)

\* The positions, in the fixed order, of the categories that declare name n.
DeclaringPositions(cats, n) ==
    {k \in 1..Len(Categories) :
        cats[Categories[k]].present /\ n \in DOMAIN cats[Categories[k]].map}

Latest(S) == CHOOSE k \in S : \A l \in S : l <= k

\* C5: the merged map has exactly the names some declared category has, and
\* gives each the version of the last category, in the order dependencies,
\* devDependencies, peerDependencies, optionalDependencies, that declares it.
C5_LaterCategoryWins ==
    \A i \in Inv :
        Done(i) =>
            LET cats == Delivered(i)
                merged == allDependencies[i]
            IN  /\ DOMAIN merged = {n \in Names : DeclaringPositions(cats, n) # {}}
                /\ \A n \in DOMAIN merged :
                     merged[n] = cats[Categories[Latest(DeclaringPositions(cats, n))]].map[n]

C5_Witness ==
    \E i \in Inv :
        /\ Done(i)
        /\ DeclaringPositions(Delivered(i), "x") = {1, 2}
        /\ Delivered(i)["dependencies"].map["x"] = StrV(CaretVersion)
        /\ Delivered(i)["devDependencies"].map["x"] = StrV(LatestVersion)
        /\ allDependencies[i]["x"] = StrV(LatestVersion)

\* C8: a result that is a number is a finite fraction between 0 and 1: its
\* divisor is positive (no division by a zero total) and its numerator, the
\* pinned count, is between 0 and the divisor.
C8_UnitInterval ==
    \A i \in Inv :
        (Done(i) /\ outcome[i].value.t = "number") =>
            /\ outcome[i].value.den > 0
            /\ 0 <= outcome[i].value.num
            /\ outcome[i].value.num <= outcome[i].value.den
            /\ Cardinality(PinnedNames(allDependencies[i]))
                   <= Cardinality(DOMAIN allDependencies[i])

C8_Witness ==
    \E i \in Inv :
        /\ Done(i)
        /\ outcome[i] = Return(Num(1, 3))
        /\ Cardinality(DOMAIN allDependencies[i]) = 3

\* The string between the first and the last character that is not white space.
Trimmed(s) ==
    LET ix == {k \in 1..Len(s) : s[k] \notin WhiteSpace}
    IN  IF ix = {} THEN <<>>
        ELSE SubSeq(s, CHOOSE a \in ix : \A b \in ix : a <= b,
                       CHOOSE a \in ix : \A b \in ix : b <= a)

DigitRun(t, a, b) == a <= b /\ \A k \in a..b : t[k] \in Digits

\* An optional ^ or ~, m digits, a dot, n digits, and then nothing, or a dot
\* followed by digits, by one * or by one x.
PinnedShape(t) ==
    \E p \in {0, 1} : \E m \in 1..Len(t) : \E n \in 1..Len(t) :
        LET e == p + m + 1 + n
        IN  /\ e <= Len(t)
            /\ p = 1 => t[1] \in {"^", "~"}
            /\ DigitRun(t, p + 1, p + m)
            /\ t[p + m + 1] = "."
            /\ DigitRun(t, p + m + 2, e)
            /\ \/ Len(t) = e
               \/ /\ Len(t) >= e + 2
                  /\ t[e + 1] = "."
                  /\ \/ DigitRun(t, e + 2, Len(t))
                     \/ Len(t) = e + 2 /\ t[e + 2] \in {"*", "x"}

Unpinned ==
    { <<"*">>,
      <<"l", "a", "t", "e", "s", "t">>,
      <<">", "=", "1", ".", "0", ".", "0">>,
      <<"1">>,
      <<"1", ".", "2", ".", "3", "-", "b", "e", "t", "a">> }

\* C4: isVersionPinned answers true exactly for the strings that, trimmed of
\* surrounding white space, have the pinned shape; it answers false for *,
\* latest, >=1.0.0, 1 and 1.2.3-beta.
C4_Classifier ==
    phase = "classified" =>
        /\ pinned <=> PinnedShape(Trimmed(version))
        /\ version \in Unpinned => ~pinned

C4_Witness ==
    /\ phase = "classified"
    /\ version = <<" ", "1", ".", "2", ".", "3", "\n">>
    /\ pinned

====
